---- MODULE Spec2Model ----
(***************************************************************************)
(* A model of the virtual guitar amplifier: the effects engine             *)
(* (src/src/effects.py, class GuitarAmpEffects), its caller                *)
(* (src/src/amplifier.py, class VirtualAmp) and the audio callback         *)
(* (src/src/audio_engine.py, AudioEngine._audio_callback).                 *)
(*                                                                         *)
(* Numbers.  The program computes in IEEE doubles; the model computes in   *)
(* fixed point.  A parameter p is the integer 100*p (gain 1.0 is 100), a   *)
(* sample s is the integer 1000*s (full scale 1.0 is 1000), and a filter   *)
(* coefficient c is the integer round(16384*c).  Every product is divided  *)
(* back with TruncDiv, which rounds towards zero so that every stage stays *)
(* odd-symmetric as the floating-point code is.                            *)
(***************************************************************************)
EXTENDS Integers, Sequences, FiniteSets, TLC

(***************************************************************************)
(* Bounds of the model.                                                    *)
(***************************************************************************)
\* longest audio block handed to one call
MaxLen == 2
\* operations (parameter writes and audio calls) in one behaviour
MaxOps == 3
\* longest block handed to one call of a single stage
MaxStageLen == 1
\* calls of single stages in one behaviour
MaxStageCalls == 2
\* samples fed to apply_reverb in one behaviour of the reverb alone
MaxFed == 7
\* writes of reverb_mix in one behaviour of the reverb alone
MaxMixWrites == 2
\* audio callbacks and commands started in one behaviour of the two threads
MaxThreadOps == 2

(***************************************************************************)
(* Fixed-point scales.                                                     *)
(***************************************************************************)
\* parameters are stored in hundredths
PScale == 100
\* samples are stored in thousandths of full scale
SScale == 1000
\* filter coefficients are stored in units of 2^-14
CScale == 16384

Abs(x) == IF x < 0 THEN -x ELSE x
Min(a, b) == IF a <= b THEN a ELSE b
Max(a, b) == IF a >= b THEN a ELSE b

\* a / b rounded towards zero (b > 0)
TruncDiv(a, b) == IF a >= 0 THEN a \div b ELSE -((-a) \div b)

(***************************************************************************)
(* Parameter ranges: the bounds of the np.clip calls of set_parameters.    *)
(***************************************************************************)
ParamNames == {"gain", "distortion", "bass", "mid", "treble", "reverb_mix"}

GainLo == 10
GainHi == 500
DistortionLo == 0
DistortionHi == 100
EqLo == -100
EqHi == 100
ReverbMixLo == 0
ReverbMixHi == 100

Lo(n) ==
    CASE n = "gain" -> GainLo
      [] n = "distortion" -> DistortionLo
      [] n = "reverb_mix" -> ReverbMixLo
      [] OTHER -> EqLo

Hi(n) ==
    CASE n = "gain" -> GainHi
      [] n = "distortion" -> DistortionHi
      [] n = "reverb_mix" -> ReverbMixHi
      [] OTHER -> EqHi

\* np.clip(v, lo, hi) is minimum(maximum(v, lo), hi)
ClipNoUpper(v, lo, hi) == Max(v, lo)
Clip(v, lo, hi) == Min(Max(v, lo), hi)

(***************************************************************************)
(* apply_gain: audio * self.gain.                                          *)
(***************************************************************************)
ApplyGain(g, audio) == [i \in 1..Len(audio) |-> TruncDiv(audio[i] * g, PScale)]

(***************************************************************************)
(* np.tanh in fixed point: the table holds round(1000 * tanh(k / 4)) for   *)
(* k = 0..17, values between two knots are interpolated linearly, and from *)
(* 4.25 on the result is 1000.  Like the double-precision tanh it is odd,  *)
(* monotone, never above 1 in magnitude and equal to 1 for large inputs.   *)
(***************************************************************************)
TanhStep == 250
TanhTable ==
    <<0, 245, 462, 635, 762, 848, 905, 941, 964, 978, 987, 992, 995, 997,
      998, 999, 999, 1000>>
TanhPos(x) ==
    LET k == x \div TanhStep
        r == x % TanhStep
    IN  IF k + 1 >= Len(TanhTable)
        THEN SScale
        ELSE TanhTable[k + 1] + ((TanhTable[k + 2] - TanhTable[k + 1]) * r) \div TanhStep
Tanh(x) == IF x >= 0 THEN TanhPos(x) ELSE -TanhPos(-x)

(***************************************************************************)
(* apply_distortion.                                                       *)
(***************************************************************************)
\* dist_factor = 1.0 + distortion * 49.0
DistFactorMul == 49
\* distorted / (1.0 + distortion * 0.5), as 200 * t / (200 + 100 * distortion)
CompensationDen == 200

DistortSample(d, x) ==
    LET pre == TruncDiv(x * (PScale + d * DistFactorMul), PScale)
    IN  TruncDiv(Tanh(pre) * CompensationDen, CompensationDen + d)

ApplyDistortionNoBypass(d, audio) ==
    [i \in 1..Len(audio) |-> DistortSample(d, audio[i])]
ApplyDistortionNoCompensation(d, audio) ==
    IF d = 0 THEN audio
    ELSE [i \in 1..Len(audio) |->
             Tanh(TruncDiv(audio[i] * (PScale + d * DistFactorMul), PScale))]
ApplyDistortion(d, audio) ==
    IF d = 0 THEN audio
    ELSE [i \in 1..Len(audio) |-> DistortSample(d, audio[i])]

(***************************************************************************)
(* scipy.signal.butter(2, ..., fs=sample_rate, output='sos'): the          *)
(* second-order sections of the three tone filters, each section           *)
(* <<b0, b1, b2, a1, a2>> with a0 = 1, in units of 2^-14.  The design is   *)
(* the bilinear transform of the order-2 Butterworth prototype; it exists  *)
(* only for cutoffs below sample_rate / 2, and the table holds the rate    *)
(* every caller in the repository constructs the engine with.              *)
(***************************************************************************)
DefaultSampleRate == 44100

\* butter(2, 100, 'low')
SosBass(fs) ==
    CASE fs = DefaultSampleRate -> << <<1, 2, 1, -32438, 16057>> >>
\* butter(2, 3000, 'high')
SosTreble(fs) ==
    CASE fs = DefaultSampleRate -> << <<12100, -24200, 12100, -23061, 8956>> >>
\* butter(2, [400, 1600], 'band'): order 4, two sections
SosMid(fs) ==
    CASE fs = DefaultSampleRate ->
        << <<107, 214, 107, -29429, 13649>>,
           <<16384, -32768, 16384, -31761, 15443>> >>

(***************************************************************************)
(* scipy.signal.sosfilt(sos, x) without zi: every call starts each section *)
(* from zero delay memory (z1 = z2 = 0) and runs the transposed direct     *)
(* form II recurrence over the block.                                      *)
(***************************************************************************)
RECURSIVE BiquadFrom(_, _, _, _, _)
BiquadFrom(c, x, i, z1, z2) ==
    IF i > Len(x) THEN <<>>
    ELSE LET y == TruncDiv(c[1] * x[i] + z1, CScale)
         IN  <<y>> \o BiquadFrom(c, x, i + 1,
                                 c[2] * x[i] - c[4] * y + z2,
                                 c[3] * x[i] - c[5] * y)

RECURSIVE SosFilt(_, _)
SosFilt(sos, x) ==
    IF sos = <<>> THEN x
    ELSE SosFilt(Tail(sos), BiquadFrom(Head(sos), x, 1, 0, 0))

(***************************************************************************)
(* apply_eq: the three bands are computed from the same input block and    *)
(* added to a copy of it.                                                  *)
(***************************************************************************)
\* result + mid_signal * mid_gain * 0.5, as a division by 2 * 100
MidHalf == 2

BassBand(b, fs, audio) ==
    IF b = 0 THEN [i \in 1..Len(audio) |-> 0]
    ELSE LET bass_signal == SosFilt(SosBass(fs), audio)
         IN  [i \in 1..Len(audio) |->
                 TruncDiv((bass_signal[i] - audio[i]) * (PScale + b), PScale)]

TrebleBand(t, fs, audio) ==
    IF t = 0 THEN [i \in 1..Len(audio) |-> 0]
    ELSE LET treble_signal == SosFilt(SosTreble(fs), audio)
         IN  [i \in 1..Len(audio) |->
                 TruncDiv((treble_signal[i] - audio[i]) * (PScale + t), PScale)]

MidBand(m, fs, audio) ==
    IF m = 0 THEN [i \in 1..Len(audio) |-> 0]
    ELSE LET mid_signal == SosFilt(SosMid(fs), audio)
         IN  [i \in 1..Len(audio) |->
                 TruncDiv(mid_signal[i] * (PScale + m), PScale * MidHalf)]

ApplyEq(b, m, t, fs, audio) ==
    LET bb == BassBand(b, fs, audio)
        tb == TrebleBand(t, fs, audio)
        mb == MidBand(m, fs, audio)
    IN  [i \in 1..Len(audio) |-> audio[i] + bb[i] + tb[i] + mb[i]]

(***************************************************************************)
(* apply_reverb: one pass of the loop per sample; the buffer and the index *)
(* are the engine's own and are returned with the output.                  *)
(***************************************************************************)
\* delayed * 0.3
FeedbackPct == 30

\* the loop without the feedback term: the slot is overwritten by the input
RECURSIVE ReverbLoopNoFeedback(_, _, _, _, _, _, _)
ReverbLoopNoFeedback(buf, idx, size, mix, audio, i, out) ==
    IF i > Len(audio) THEN [out |-> out, buffer |-> buf, index |-> idx]
    ELSE LET delayed == buf[idx]
             y == TruncDiv(audio[i] * (PScale - mix) + delayed * mix, PScale)
         IN  ReverbLoopNoFeedback([buf EXCEPT ![idx] = audio[i]], (idx + 1) % size,
                                  size, mix, audio, i + 1, Append(out, y))

RECURSIVE ReverbLoop(_, _, _, _, _, _, _)
ReverbLoop(buf, idx, size, mix, audio, i, out) ==
    IF i > Len(audio) THEN [out |-> out, buffer |-> buf, index |-> idx]
    ELSE LET delayed == buf[idx]
             stored == audio[i] + TruncDiv(delayed * FeedbackPct, PScale)
             y == TruncDiv(audio[i] * (PScale - mix) + delayed * mix, PScale)
         IN  ReverbLoop([buf EXCEPT ![idx] = stored], (idx + 1) % size, size,
                        mix, audio, i + 1, Append(out, y))

\* the cursor restarted at every call
ApplyReverbRestart(buf, idx, size, mix, audio) ==
    IF mix = 0 THEN [out |-> audio, buffer |-> buf, index |-> idx]
    ELSE ReverbLoop(buf, 0, size, mix, audio, 1, <<>>)
\* the loop run over range(1, len(audio)): the first sample is lost
ApplyReverbShort(buf, idx, size, mix, audio) ==
    IF mix = 0 THEN [out |-> audio, buffer |-> buf, index |-> idx]
    ELSE ReverbLoop(buf, idx, size, mix, audio, 2, <<>>)
ApplyReverb(buf, idx, size, mix, audio) ==
    IF mix = 0 THEN [out |-> audio, buffer |-> buf, index |-> idx]
    ELSE ReverbLoop(buf, idx, size, mix, audio, 1, <<>>)

(***************************************************************************)
(* process: Gain -> Distortion -> EQ -> Reverb.  e is the engine as a      *)
(* record of its fields.                                                   *)
(***************************************************************************)
ProcessEqFirst(e, audio) ==
    LET p1 == ApplyGain(e.gain, audio)
        p2 == ApplyEq(e.bass, e.mid, e.treble, e.sample_rate, p1)
        p3 == ApplyDistortion(e.distortion, p2)
    IN  ApplyReverb(e.reverb_buffer, e.reverb_index, e.reverb_buffer_size,
                    e.reverb_mix, p3)
Process(e, audio) ==
    LET p1 == ApplyGain(e.gain, audio)
        p2 == ApplyDistortion(e.distortion, p1)
        p3 == ApplyEq(e.bass, e.mid, e.treble, e.sample_rate, p2)
    IN  ApplyReverb(e.reverb_buffer, e.reverb_index, e.reverb_buffer_size,
                    e.reverb_mix, p3)

(***************************************************************************)
(* State.  The engine's fields keep their names.  op, kwargs, audio_in and *)
(* audio_out record the last call, its arguments and what it returned.     *)
(* eq_in/eq_out and rv_in/rv_out are the concatenated inputs and outputs   *)
(* of the apply_eq and apply_reverb calls made since the last parameter    *)
(* write, and rv_base is the delay line as it was at that write.  fed      *)
(* counts the samples handed to apply_reverb since construction.           *)
(* callback is the audio thread's position inside one _audio_callback and  *)
(* its local variables; cli is what the command thread has still to write. *)
(* Both are idle wherever a call is taken as one step.  process_callback   *)
(* is the AudioEngine's field of that name and returned what the last      *)
(* _audio_callback handed back to the stream.  twin is a second engine:    *)
(* its fields, and the block, the output and the states before and after   *)
(* of its last process call.                                               *)
(***************************************************************************)
VARIABLES sample_rate, gain, distortion, bass, mid, treble, reverb_mix,
          reverb_buffer_size, reverb_buffer, reverb_index,
          current_preset,
          op, kwargs, audio_in, audio_out,
          eq_in, eq_out, rv_in, rv_out, rv_base, fed, nops,
          callback, cli,
          process_callback, returned, twin

params == <<gain, distortion, bass, mid, treble, reverb_mix>>
delay == <<reverb_buffer_size, reverb_buffer, reverb_index>>
last == <<op, kwargs, audio_in, audio_out>>
history == <<eq_in, eq_out, rv_in, rv_out, rv_base>>

threads == <<callback, cli>>
\* what no method of GuitarAmpEffects or VirtualAmp writes after construction
fixed == <<sample_rate, process_callback, returned, twin>>
vars == <<fixed, params, delay, current_preset, last, history, fed, nops,
          threads>>

\* the six parameters by name
Param ==
    [n \in ParamNames |->
        CASE n = "gain" -> gain
          [] n = "distortion" -> distortion
          [] n = "bass" -> bass
          [] n = "mid" -> mid
          [] n = "treble" -> treble
          [] n = "reverb_mix" -> reverb_mix]

Engine ==
    [sample_rate |-> sample_rate, gain |-> gain, distortion |-> distortion,
     bass |-> bass, mid |-> mid, treble |-> treble, reverb_mix |-> reverb_mix,
     reverb_buffer_size |-> reverb_buffer_size,
     reverb_buffer |-> reverb_buffer, reverb_index |-> reverb_index]

IdleCallback ==
    [pc |-> "idle", audio |-> <<>>, processed |-> <<>>, i |-> 0, output |-> <<>>,
     entry |-> <<>>]
IdleCli == [todo |-> <<>>, preset |-> ""]
\* no _audio_callback has returned yet
NoReturn == [audio |-> <<>>, processed |-> <<>>, output |-> <<>>, flag |-> ""]
\* no second engine
NoTwin ==
    [engine |-> <<>>, pre |-> <<>>, audio |-> <<>>, out |-> <<>>, post |-> <<>>,
     calls |-> 0]
\* VirtualAmp.__init__: set_process_callback(self._process_audio), no stream yet
Boundary ==
    /\ process_callback = "_process_audio"
    /\ returned = NoReturn
    /\ twin = NoTwin

(***************************************************************************)
(* Inputs.                                                                 *)
(***************************************************************************)
\* samples of an input block: 0.6 and -1.5 of full scale
Samples == {600, -1500}
Blocks == UNION {[1..n -> Samples] : n \in 0..MaxLen}

\* one keyword each: 10.0, -5.0 and 0.3 are below, above or inside the range
\* of the parameter they are given for
SingleRequests ==
    {("gain" :> -500), ("distortion" :> 30), ("bass" :> -500), ("reverb_mix" :> 1000)}
\* set_parameters(gain=10.0, distortion=2.0, bass=-5.0, treble=5.0)
ClampingRequest ==
    ("gain" :> 1000) @@ ("distortion" :> 200) @@ ("bass" :> -500) @@ ("treble" :> 500)
\* set_parameters(gain=2.0, distortion=0.5, bass=0.3, mid=-0.2, treble=0.4, reverb_mix=0.3)
SettingRequest ==
    ("gain" :> 200) @@ ("distortion" :> 50) @@ ("bass" :> 30) @@ ("mid" :> -20)
        @@ ("treble" :> 40) @@ ("reverb_mix" :> 30)
Requests == SingleRequests \cup {<<>>, ClampingRequest, SettingRequest}

(***************************************************************************)
(* GuitarAmpEffects.__init__                                               *)
(***************************************************************************)
\* int(0.05 * sample_rate)
BufferSize(fs) == fs \div 20

Construct(fs) ==
    /\ sample_rate = fs
    /\ gain = 100
    /\ distortion = 0
    /\ bass = 0
    /\ mid = 0
    /\ treble = 0
    /\ reverb_mix = 0
    /\ reverb_buffer_size = BufferSize(fs)
    /\ reverb_buffer = [i \in 0..(BufferSize(fs) - 1) |-> 0]
    /\ reverb_index = 0
    /\ current_preset = "clean"
    /\ op = "init"
    /\ kwargs = <<>>
    /\ audio_in = <<>>
    /\ audio_out = <<>>
    /\ eq_in = <<>>
    /\ eq_out = <<>>
    /\ rv_in = <<>>
    /\ rv_out = <<>>
    /\ rv_base = [buffer |-> reverb_buffer, index |-> 0]
    /\ fed = 0
    /\ nops = 0
    /\ callback = IdleCallback
    /\ cli = IdleCli
    /\ Boundary

Init == Construct(DefaultSampleRate)

(***************************************************************************)
(* set_parameters: one np.clip and one store per keyword given.            *)
(***************************************************************************)
SetFieldResetAbsent(n, kw, cur) ==
    IF n \in DOMAIN kw THEN Clip(kw[n], Lo(n), Hi(n))
    ELSE IF n = "gain" THEN 100 ELSE 0
SetField(n, kw, cur) ==
    IF n \in DOMAIN kw THEN Clip(kw[n], Lo(n), Hi(n)) ELSE cur

\* the body of GuitarAmpEffects.set_parameters
StoreParameters(kw) ==
    /\ gain' = SetField("gain", kw, gain)
    /\ distortion' = SetField("distortion", kw, distortion)
    /\ bass' = SetField("bass", kw, bass)
    /\ mid' = SetField("mid", kw, mid)
    /\ treble' = SetField("treble", kw, treble)
    /\ reverb_mix' = SetField("reverb_mix", kw, reverb_mix)
    /\ kwargs' = kw
    /\ audio_in' = <<>>
    /\ audio_out' = <<>>
    /\ eq_in' = <<>>
    /\ eq_out' = <<>>
    /\ rv_in' = <<>>
    /\ rv_out' = <<>>
    /\ rv_base' = [buffer |-> reverb_buffer, index |-> reverb_index]
    /\ UNCHANGED <<fixed, delay, fed>>

\* VirtualAmp.set_parameters, or the engine's set_parameters called directly
SetParameters(kw) ==
    /\ StoreParameters(kw)
    /\ op' = "set_parameters"
    /\ UNCHANGED current_preset

(***************************************************************************)
(* VirtualAmp: the preset table of __init__ and load_preset.               *)
(***************************************************************************)
PresetNames == {"clean", "crunch", "overdrive", "distortion", "metal"}
\* what the command line may ask for: the presets and a name that is none
PresetRequests == PresetNames \cup {"jazz"}

Preset(g, d, b, m, t, r) ==
    ("gain" :> g) @@ ("distortion" :> d) @@ ("bass" :> b) @@ ("mid" :> m)
        @@ ("treble" :> t) @@ ("reverb_mix" :> r)
presets ==
    [name \in PresetNames |->
        CASE name = "clean" -> Preset(100, 0, 0, 0, 0, 20)
          [] name = "crunch" -> Preset(200, 30, 20, 10, 10, 15)
          [] name = "overdrive" -> Preset(250, 50, 10, 30, 20, 10)
          [] name = "distortion" -> Preset(300, 70, 30, 20, 30, 10)
          [] name = "metal" -> Preset(400, 90, 40, -20, 50, 5)]

\* a load_preset that stores the parameters and forgets the name
LoadPresetKeepsName(preset_name) ==
    IF preset_name \notin DOMAIN presets
    THEN /\ op' = "load_preset"
         /\ kwargs' = <<>>
         /\ audio_in' = <<>>
         /\ audio_out' = <<>>
         /\ UNCHANGED <<fixed, params, delay, current_preset, history, fed>>
    ELSE /\ StoreParameters(presets[preset_name])
         /\ UNCHANGED current_preset
         /\ op' = "load_preset"
LoadPreset(preset_name) ==
    IF preset_name \notin DOMAIN presets
    THEN /\ op' = "load_preset"
         /\ kwargs' = <<>>
         /\ audio_in' = <<>>
         /\ audio_out' = <<>>
         /\ UNCHANGED <<fixed, params, delay, current_preset, history, fed>>
    ELSE /\ StoreParameters(presets[preset_name])
         /\ current_preset' = preset_name
         /\ op' = "load_preset"

(***************************************************************************)
(* Calls of the audio methods.                                             *)
(***************************************************************************)
\* a process that dithers its output from a count of the calls made so far
ProcessCallDithered(block) ==
    /\ LET r == Process(Engine, block)
       IN  /\ reverb_buffer' = r.buffer
           /\ reverb_index' = r.index
           /\ audio_out' = [i \in DOMAIN r.out |-> r.out[i] + (nops % 2)]
           /\ rv_base' = [buffer |-> r.buffer, index |-> r.index]
    /\ op' = "process"
    /\ fed' = fed + Len(block)
    /\ audio_in' = block
    /\ eq_in' = <<>>
    /\ eq_out' = <<>>
    /\ rv_in' = <<>>
    /\ rv_out' = <<>>
    /\ UNCHANGED <<fixed, params, reverb_buffer_size, current_preset, kwargs>>
ProcessCall(block) ==
    /\ LET r == Process(Engine, block)
       IN  /\ reverb_buffer' = r.buffer
           /\ reverb_index' = r.index
           /\ audio_out' = r.out
           /\ rv_base' = [buffer |-> r.buffer, index |-> r.index]
    /\ op' = "process"
    /\ fed' = fed + Len(block)
    /\ audio_in' = block
    /\ eq_in' = <<>>
    /\ eq_out' = <<>>
    /\ rv_in' = <<>>
    /\ rv_out' = <<>>
    /\ UNCHANGED <<fixed, params, reverb_buffer_size, current_preset, kwargs>>

ApplyGainCall(block) ==
    /\ op' = "apply_gain"
    /\ audio_in' = block
    /\ audio_out' = ApplyGain(gain, block)
    /\ UNCHANGED <<fixed, params, delay, current_preset, kwargs, history, fed>>

ApplyDistortionCall(block) ==
    /\ op' = "apply_distortion"
    /\ audio_in' = block
    /\ audio_out' = ApplyDistortion(distortion, block)
    /\ UNCHANGED <<fixed, params, delay, current_preset, kwargs, history, fed>>

ApplyEqCall(block) ==
    /\ op' = "apply_eq"
    /\ audio_in' = block
    /\ audio_out' = ApplyEq(bass, mid, treble, sample_rate, block)
    /\ eq_in' = eq_in \o block
    /\ eq_out' = eq_out \o audio_out'
    /\ UNCHANGED <<fixed, params, delay, current_preset, kwargs,
                   rv_in, rv_out, rv_base, fed>>

ApplyReverbCall(block) ==
    /\ LET r == ApplyReverb(reverb_buffer, reverb_index, reverb_buffer_size,
                            reverb_mix, block)
       IN  /\ reverb_buffer' = r.buffer
           /\ reverb_index' = r.index
           /\ audio_out' = r.out
    /\ op' = "apply_reverb"
    /\ fed' = fed + Len(block)
    /\ audio_in' = block
    /\ rv_in' = rv_in \o block
    /\ rv_out' = rv_out \o audio_out'
    /\ UNCHANGED <<fixed, params, reverb_buffer_size, current_preset,
                   kwargs, eq_in, eq_out, rv_base>>

(***************************************************************************)
(* Spec: the amplifier at the rate every caller constructs it with;        *)
(* parameter writes, preset loads and process calls in any order.  nops    *)
(* counts the operations of the behaviour.                                 *)
(***************************************************************************)
Tick == nops < MaxOps /\ nops' = nops + 1 /\ UNCHANGED threads

SetParametersStep == \E kw \in Requests : Tick /\ SetParameters(kw)
LoadPresetStep == \E name \in PresetRequests : Tick /\ LoadPreset(name)
ProcessStep == \E block \in Blocks : Tick /\ ProcessCall(block)

Next == SetParametersStep \/ LoadPresetStep \/ ProcessStep

Spec == Init /\ [][Next]_vars

(***************************************************************************)
(* C1.  Every stored parameter is within its declared range in every       *)
(* reachable state, and a write outside the range stores the nearest       *)
(* bound: a request above the range stores the upper bound, one below it   *)
(* the lower bound.                                                        *)
(***************************************************************************)
C1_ParametersInRange ==
    /\ \A n \in ParamNames : Lo(n) <= Param[n] /\ Param[n] <= Hi(n)
    /\ op = "set_parameters" =>
          \A n \in DOMAIN kwargs :
              /\ kwargs[n] > Hi(n) => Param[n] = Hi(n)
              /\ kwargs[n] < Lo(n) => Param[n] = Lo(n)

\* gain=10.0 and bass=-5.0 were written, stored as 5.0 and -1.0, and a block
\* has been processed since
C1_Witness ==
    /\ op = "process"
    /\ kwargs = ClampingRequest
    /\ gain = GainHi
    /\ bass = EqLo
    /\ audio_in # <<>>

(***************************************************************************)
(* C2.  set_parameters is a partial update: every parameter named in the   *)
(* call becomes max(min(value, hi), lo), every parameter not named keeps   *)
(* its value, and the reverb buffer and cursor are untouched.              *)
(***************************************************************************)
C2_PartialUpdate ==
    [][op' = "set_parameters" =>
          /\ \A n \in ParamNames :
                Param'[n] = IF n \in DOMAIN kwargs'
                            THEN Max(Min(kwargs'[n], Hi(n)), Lo(n))
                            ELSE Param[n]
          /\ reverb_buffer' = reverb_buffer
          /\ reverb_index' = reverb_index]_vars

\* bass alone is written after all six parameters were set and a block went
\* through the reverb
C2_Witness ==
    /\ op = "set_parameters"
    /\ kwargs = ("bass" :> -500)
    /\ bass = EqLo
    /\ gain = 200
    /\ reverb_mix = 30
    /\ reverb_index > 0

(***************************************************************************)
(* C8.  process is Reverb(ToneControl(Distortion(Gain(block)))): its       *)
(* output and the delay line it leaves are those of the four stages        *)
(* applied once each in that order, each to the previous stage's output,   *)
(* with nothing added by process itself, and the six parameters are left   *)
(* as they were.                                                           *)
(***************************************************************************)
C8_StageOrder ==
    [][op' = "process" =>
          LET g == ApplyGain(gain, audio_in')
              d == ApplyDistortion(distortion, g)
              e == ApplyEq(bass, mid, treble, sample_rate, d)
              r == ApplyReverb(reverb_buffer, reverb_index, reverb_buffer_size,
                               reverb_mix, e)
          IN  /\ params' = params
              /\ r = [out |-> audio_out', buffer |-> reverb_buffer',
                      index |-> reverb_index']]_vars

\* a block of two samples went through all four stages, none of them neutral
C8_Witness ==
    /\ op = "process"
    /\ Len(audio_in) >= 2
    /\ gain # 100
    /\ distortion # 0
    /\ treble # 0
    /\ reverb_mix # 0
    /\ audio_out # audio_in

C14_MutatedPerSample ==
    reverb_index = fed % reverb_buffer_size

(***************************************************************************)
(* SpecStages: the four stage methods called one at a time, as the tests   *)
(* call them.  The engine starts as the calls                              *)
(*     set_parameters(reverb_mix=1.0); apply_reverb(warm);                 *)
(*     set_parameters(reverb_mix=0.0); set_parameters(kw)                  *)
(* leave a freshly constructed one, for each request kw and each warm-up   *)
(* block: the delay line is either untouched or holds what the warm-up     *)
(* block left in it.                                                       *)
(***************************************************************************)
StageBlocks == UNION {[1..n -> Samples] : n \in 0..MaxStageLen}
StageRequests ==
    {<<>>, ClampingRequest, SettingRequest, ("distortion" :> 30),
     ("treble" :> 1000), ("reverb_mix" :> 1000)}
Warmups == {<<>>, <<600, -1500>>}

InitStages ==
    \E kw \in StageRequests, warm \in Warmups :
        LET size == BufferSize(DefaultSampleRate)
            r == ApplyReverb([i \in 0..(size - 1) |-> 0], 0, size, ReverbMixHi, warm)
        IN  /\ sample_rate = DefaultSampleRate
            /\ gain = SetField("gain", kw, 100)
            /\ distortion = SetField("distortion", kw, 0)
            /\ bass = SetField("bass", kw, 0)
            /\ mid = SetField("mid", kw, 0)
            /\ treble = SetField("treble", kw, 0)
            /\ reverb_mix = SetField("reverb_mix", kw, 0)
            /\ reverb_buffer_size = size
            /\ reverb_buffer = r.buffer
            /\ reverb_index = r.index
            /\ current_preset = "clean"
            /\ op = "set_parameters"
            /\ kwargs = kw
            /\ audio_in = <<>>
            /\ audio_out = <<>>
            /\ eq_in = <<>>
            /\ eq_out = <<>>
            /\ rv_in = <<>>
            /\ rv_out = <<>>
            /\ rv_base = [buffer |-> r.buffer, index |-> r.index]
            /\ fed = Len(warm)
            /\ nops = 0
            /\ callback = IdleCallback
            /\ cli = IdleCli
            /\ Boundary

StageTick == nops < MaxStageCalls /\ nops' = nops + 1 /\ UNCHANGED threads

ApplyGainStep == \E block \in StageBlocks : StageTick /\ ApplyGainCall(block)
ApplyDistortionStep == \E block \in StageBlocks : StageTick /\ ApplyDistortionCall(block)
ApplyEqStep == \E block \in StageBlocks : StageTick /\ ApplyEqCall(block)
ApplyReverbStep == \E block \in StageBlocks : StageTick /\ ApplyReverbCall(block)

NextStages == ApplyGainStep \/ ApplyDistortionStep \/ ApplyEqStep \/ ApplyReverbStep

SpecStages == InitStages /\ [][NextStages]_vars

(***************************************************************************)
(* C3.  The tone filters keep their delay memory across calls: with a      *)
(* band away from zero, the outputs of consecutive apply_eq calls,         *)
(* concatenated, are the output of one apply_eq call on the concatenated   *)
(* input.                                                                  *)
(***************************************************************************)
C3_EqContinuity ==
    (bass # 0 \/ mid # 0 \/ treble # 0) =>
        eq_out = ApplyEq(bass, mid, treble, sample_rate, eq_in)

(***************************************************************************)
(* C6.  Identity bypass: apply_distortion returns its input when           *)
(* distortion is 0, apply_reverb returns its input when reverb_mix is 0,   *)
(* and apply_eq returns its input when bass, mid and treble are all 0,     *)
(* whatever the delay line holds.                                          *)
(***************************************************************************)
C6_IdentityBypass ==
    /\ (op = "apply_distortion" /\ distortion = 0) => audio_out = audio_in
    /\ (op = "apply_reverb" /\ reverb_mix = 0) => audio_out = audio_in
    /\ (op = "apply_eq" /\ bass = 0 /\ mid = 0 /\ treble = 0) => audio_out = audio_in

\* a block went through apply_reverb with reverb_mix 0 while the delay line
\* held the echo of earlier samples
C6_Witness ==
    /\ op = "apply_reverb"
    /\ reverb_mix = 0
    /\ audio_in # <<>>
    /\ audio_out = audio_in
    /\ \E i \in DOMAIN reverb_buffer : reverb_buffer[i] # 0

(***************************************************************************)
(* C7 as stated.  Every output sample of apply_distortion lies strictly    *)
(* inside (-1, 1), for every distortion in [0, 1], distortion 0 included.  *)
(***************************************************************************)
C7_DistortionBounded ==
    op = "apply_distortion" =>
        \A i \in DOMAIN audio_out : -SScale < audio_out[i] /\ audio_out[i] < SScale

(***************************************************************************)
(* C7 as amended.  For distortion in (0, 1] every output sample has a      *)
(* magnitude of at most 1 / (1 + 0.5 * distortion), so never above 1; for  *)
(* distortion 0 the output is the input, whatever its magnitude.           *)
(***************************************************************************)
C7_DistortionBoundedAmended ==
    op = "apply_distortion" =>
        IF distortion = 0
        THEN audio_out = audio_in
        ELSE \A i \in DOMAIN audio_out :
                 Abs(audio_out[i]) * (CompensationDen + distortion)
                     <= SScale * CompensationDen

\* a sample of magnitude 1.5 was distorted with distortion above 0
C7_Witness ==
    /\ op = "apply_distortion"
    /\ distortion > 0
    /\ \E i \in DOMAIN audio_in : Abs(audio_in[i]) > SScale

(***************************************************************************)
(* SpecReverb: the reverb stage alone, on engines constructed with sample  *)
(* rates that make the delay line 1, 2 and 3 samples long, so that blocks  *)
(* shorter and longer than the delay line and several trips round it are   *)
(* reached.  reverb_mix is written between runs of apply_reverb calls; the *)
(* blocks are any split of up to MaxFed samples.                           *)
(***************************************************************************)
SmallRates == {20, 50, 60}
\* silence and a full-scale sample
ImpulseSamples == {0, 1000}
ReverbBlocks == UNION {[1..n -> ImpulseSamples] : n \in 0..MaxFed}
\* reverb_mix = 10.0 (stored as 1.0), 0.3 and -5.0 (stored as 0.0)
MixRequests == {("reverb_mix" :> 1000), ("reverb_mix" :> 30), ("reverb_mix" :> -500)}

InitReverb == \E fs \in SmallRates : Construct(fs)

SetMixStep ==
    \E kw \in MixRequests :
        /\ nops < MaxMixWrites
        /\ nops' = nops + 1
        /\ SetParameters(kw)
        /\ UNCHANGED threads

ReverbStep ==
    \E block \in ReverbBlocks :
        /\ fed + Len(block) <= MaxFed
        /\ ApplyReverbCall(block)
        /\ UNCHANGED <<nops, threads>>

NextReverb == SetMixStep \/ ReverbStep

SpecReverb == InitReverb /\ [][NextReverb]_vars

(***************************************************************************)
(* C5.  The delay line persists across calls: with reverb_mix fixed and    *)
(* not 0, the outputs of consecutive apply_reverb calls, concatenated, the *)
(* buffer and the cursor they leave are those of one apply_reverb call on  *)
(* the concatenated input, started from the same delay line.               *)
(***************************************************************************)
C5_ReverbContinuity ==
    reverb_mix # 0 =>
        LET r == ApplyReverb(rv_base.buffer, rv_base.index, reverb_buffer_size,
                             reverb_mix, rv_in)
        IN  /\ rv_out = r.out
            /\ reverb_buffer = r.buffer
            /\ reverb_index = r.index

\* a block longer than the delay line followed one shorter than it, on a delay
\* line that already held an echo
C5_Witness ==
    /\ op = "apply_reverb"
    /\ reverb_mix # 0
    /\ Len(audio_in) > reverb_buffer_size
    /\ Len(rv_in) > Len(audio_in)
    /\ Len(rv_in) - Len(audio_in) < reverb_buffer_size
    /\ \E i \in DOMAIN rv_base.buffer : rv_base.buffer[i] # 0
    /\ \E i \in DOMAIN audio_out : audio_out[i] # 0

(***************************************************************************)
(* C9.  Reverb decay: from an all-zero delay line and reverb_mix 1.0, a    *)
(* unit impulse followed by silence, fed in any blocks, gives an output    *)
(* that is 0 except at the multiples k * capacity, k >= 1, of the delay    *)
(* length, where it is 0.3^(k-1): each echo is 0.3 times the one before.   *)
(***************************************************************************)
RECURSIVE Echo(_)
Echo(k) == IF k <= 1 THEN SScale ELSE TruncDiv(Echo(k - 1) * 3, 10)

UnitImpulse(x) ==
    /\ x # <<>>
    /\ x[1] = SScale
    /\ \A i \in 2..Len(x) : x[i] = 0

C9_ImpulseEchoes ==
    (/\ reverb_mix = ReverbMixHi
     /\ \A i \in DOMAIN rv_base.buffer : rv_base.buffer[i] = 0
     /\ UnitImpulse(rv_in)) =>
        \A n \in 0..(Len(rv_out) - 1) :
            rv_out[n + 1] = IF n > 0 /\ n % reverb_buffer_size = 0
                            THEN Echo(n \div reverb_buffer_size)
                            ELSE 0

\* the second echo, 0.3, has come out of a delay line of two or more samples,
\* the impulse and the silence having been fed in more than one block
C9_Witness ==
    /\ reverb_mix = ReverbMixHi
    /\ \A i \in DOMAIN rv_base.buffer : rv_base.buffer[i] = 0
    /\ UnitImpulse(rv_in)
    /\ reverb_buffer_size >= 2
    /\ Len(audio_in) < Len(rv_in)
    /\ Len(rv_out) > 2 * reverb_buffer_size
    /\ rv_out[reverb_buffer_size + 1] = 1000
    /\ rv_out[2 * reverb_buffer_size + 1] = 300

(***************************************************************************)
(* SpecThreads: the running amplifier.  PyAudio calls _audio_callback on   *)
(* its own thread; the command loop of main.py calls set_parameters and    *)
(* load_preset on the main thread.  Neither amplifier.py nor effects.py    *)
(* takes a lock, so the interpreter may switch threads between any two     *)
(* statements: a step of the audio thread is one stage of process or one   *)
(* pass of the reverb loop, a step of the command thread is one store of   *)
(* set_parameters.                                                         *)
(***************************************************************************)
ThreadBlocks == {<<>>, <<600>>, <<600, -1500>>}
ThreadRequests == {("reverb_mix" :> 1000), SettingRequest}
ThreadPresets == {"metal", "jazz"}

\* the keywords of a call in the order set_parameters tests them
FieldOrder == <<"gain", "distortion", "bass", "mid", "treble", "reverb_mix">>
Stores(kw) == SelectSeq(FieldOrder, LAMBDA n : n \in DOMAIN kw)

ThreadTick == nops < MaxThreadOps /\ nops' = nops + 1

\* _audio_callback is entered with a block and calls process
CallbackEnter ==
    \E block \in ThreadBlocks :
        /\ callback.pc = "idle"
        /\ ThreadTick
        /\ callback' = [pc |-> "gain", audio |-> block, processed |-> block,
                        i |-> 0, output |-> <<>>, entry |-> params]
        /\ UNCHANGED <<fixed, params, delay, current_preset, last, history,
                       fed, cli>>

CallbackGain ==
    /\ callback.pc = "gain"
    /\ callback' = [callback EXCEPT !.pc = "distortion",
                                    !.processed = ApplyGain(gain, callback.processed)]
    /\ UNCHANGED <<fixed, params, delay, current_preset, last, history,
                   fed, nops, cli>>

CallbackDistortion ==
    /\ callback.pc = "distortion"
    /\ callback' = [callback EXCEPT !.pc = "eq",
                                    !.processed = ApplyDistortion(distortion,
                                                                  callback.processed)]
    /\ UNCHANGED <<fixed, params, delay, current_preset, last, history,
                   fed, nops, cli>>

CallbackEq ==
    /\ callback.pc = "eq"
    /\ callback' = [callback EXCEPT !.pc = "reverb",
                                    !.processed = ApplyEq(bass, mid, treble, sample_rate,
                                                          callback.processed)]
    /\ UNCHANGED <<fixed, params, delay, current_preset, last, history,
                   fed, nops, cli>>

\* apply_reverb up to the loop: the test of reverb_mix
CallbackReverbEnter ==
    /\ callback.pc = "reverb"
    /\ IF reverb_mix = 0
       THEN callback' = [callback EXCEPT !.pc = "return", !.output = callback.processed]
       ELSE callback' = [callback EXCEPT !.pc = "loop", !.i = 1, !.output = <<>>]
    /\ fed' = fed + Len(callback.processed)
    /\ UNCHANGED <<fixed, params, delay, current_preset, last, history,
                   nops, cli>>

\* one pass of the loop of apply_reverb, with reverb_mix as it is now
CallbackReverbSample ==
    /\ callback.pc = "loop"
    /\ callback.i <= Len(callback.processed)
    /\ LET x == callback.processed[callback.i]
           delayed == reverb_buffer[reverb_index]
       IN  /\ reverb_buffer' =
                  [reverb_buffer EXCEPT
                      ![reverb_index] = x + TruncDiv(delayed * FeedbackPct, PScale)]
           /\ callback' =
                  [callback EXCEPT
                      !.i = callback.i + 1,
                      !.output = Append(callback.output,
                                        TruncDiv(x * (PScale - reverb_mix)
                                                     + delayed * reverb_mix, PScale))]
    /\ reverb_index' = (reverb_index + 1) % reverb_buffer_size
    /\ UNCHANGED <<fixed, params, reverb_buffer_size, current_preset, last,
                   history, fed, nops, cli>>

\* process returns to the callback
CallbackReturn ==
    /\ \/ callback.pc = "return"
       \/ callback.pc = "loop" /\ callback.i > Len(callback.processed)
    /\ op' = "process"
    /\ audio_in' = callback.audio
    /\ audio_out' = callback.output
    /\ callback' = IdleCallback
    /\ eq_in' = <<>>
    /\ eq_out' = <<>>
    /\ rv_in' = <<>>
    /\ rv_out' = <<>>
    /\ rv_base' = [buffer |-> reverb_buffer, index |-> reverb_index]
    /\ UNCHANGED <<fixed, params, delay, current_preset, kwargs, fed, nops, cli>>

\* the command loop calls set_parameters
CliSetParameters ==
    \E kw \in ThreadRequests :
        /\ cli = IdleCli
        /\ ThreadTick
        /\ cli' = [todo |-> Stores(kw), preset |-> ""]
        /\ kwargs' = kw
        /\ op' = "set_parameters"
        /\ UNCHANGED <<fixed, params, delay, current_preset, audio_in,
                       audio_out, history, fed, callback>>

\* the command loop calls load_preset
CliLoadPreset ==
    \E name \in ThreadPresets :
        /\ cli = IdleCli
        /\ ThreadTick
        /\ IF name \in DOMAIN presets
           THEN /\ cli' = [todo |-> Stores(presets[name]), preset |-> name]
                /\ kwargs' = presets[name]
           ELSE /\ cli' = IdleCli
                /\ kwargs' = <<>>
        /\ op' = "load_preset"
        /\ UNCHANGED <<fixed, params, delay, current_preset, audio_in,
                       audio_out, history, fed, callback>>

\* one "if name in kwargs: self.name = np.clip(...)" of set_parameters
CliStore ==
    /\ cli.todo # <<>>
    /\ LET n == Head(cli.todo)
           v == Clip(kwargs[n], Lo(n), Hi(n))
       IN  /\ gain' = IF n = "gain" THEN v ELSE gain
           /\ distortion' = IF n = "distortion" THEN v ELSE distortion
           /\ bass' = IF n = "bass" THEN v ELSE bass
           /\ mid' = IF n = "mid" THEN v ELSE mid
           /\ treble' = IF n = "treble" THEN v ELSE treble
           /\ reverb_mix' = IF n = "reverb_mix" THEN v ELSE reverb_mix
    /\ cli' = [cli EXCEPT !.todo = Tail(cli.todo)]
    /\ UNCHANGED <<fixed, delay, current_preset, last, history, fed, nops,
                   callback>>

\* load_preset after set_parameters has returned
CliPresetLoaded ==
    /\ cli.todo = <<>>
    /\ cli.preset # ""
    /\ current_preset' = cli.preset
    /\ cli' = IdleCli
    /\ UNCHANGED <<fixed, params, delay, last, history, fed, nops, callback>>

NextThreads ==
    \/ CallbackEnter \/ CallbackGain \/ CallbackDistortion \/ CallbackEq
    \/ CallbackReverbEnter \/ CallbackReverbSample \/ CallbackReturn
    \/ CliSetParameters \/ CliLoadPreset \/ CliStore \/ CliPresetLoaded

SpecThreads == Init /\ [][NextThreads]_vars

(***************************************************************************)
(* C4.  Parameter changes and block processing do not interleave           *)
(* mid-block: while a process call is under way the six parameters are the *)
(* ones it started with, and no block is processed while a set_parameters  *)
(* call (a preset load) has stored some of its fields and not yet the      *)
(* others.                                                                 *)
(***************************************************************************)
C4_NoMidBlockChange ==
    callback.pc # "idle" =>
        /\ params = callback.entry
        /\ cli.todo = <<>> \/ cli.todo = Stores(kwargs)

(***************************************************************************)
(* SpecTwins: two engines.  Both start as the calls                        *)
(*     set_parameters(reverb_mix=1.0); apply_reverb(warm);                 *)
(*     set_parameters(kw)                                                  *)
(* leave a freshly constructed engine, and from there each is written to   *)
(* and made to process blocks on its own, so that the two meet in the same *)
(* state after different calls.  The first engine is the one the engine    *)
(* variables hold; the second is twin.engine, and twin.pre, twin.audio,    *)
(* twin.out and twin.post are the state before, the block, the output and  *)
(* the state after of its last process call.                               *)
(***************************************************************************)
MaxTwinOps == 3

TwinInits == {SettingRequest, ("reverb_mix" :> 1000)}
TwinRequests == {("gain" :> 1000), ("reverb_mix" :> -500)}
TwinBlocks == {<<600>>, <<600, -1500>>}

\* set_parameters on an engine given as a record of its fields
StoreInto(e, kw) ==
    [e EXCEPT !.gain = SetField("gain", kw, e.gain),
              !.distortion = SetField("distortion", kw, e.distortion),
              !.bass = SetField("bass", kw, e.bass),
              !.mid = SetField("mid", kw, e.mid),
              !.treble = SetField("treble", kw, e.treble),
              !.reverb_mix = SetField("reverb_mix", kw, e.reverb_mix)]

InitTwins ==
    \E kw \in TwinInits, warm \in Warmups :
        LET size == BufferSize(DefaultSampleRate)
            r == ApplyReverb([i \in 0..(size - 1) |-> 0], 0, size, ReverbMixHi, warm)
        IN  /\ sample_rate = DefaultSampleRate
            /\ gain = SetField("gain", kw, 100)
            /\ distortion = SetField("distortion", kw, 0)
            /\ bass = SetField("bass", kw, 0)
            /\ mid = SetField("mid", kw, 0)
            /\ treble = SetField("treble", kw, 0)
            /\ reverb_mix = SetField("reverb_mix", kw, ReverbMixHi)
            /\ reverb_buffer_size = size
            /\ reverb_buffer = r.buffer
            /\ reverb_index = r.index
            /\ current_preset = "clean"
            /\ op = "set_parameters"
            /\ kwargs = kw
            /\ audio_in = <<>>
            /\ audio_out = <<>>
            /\ eq_in = <<>>
            /\ eq_out = <<>>
            /\ rv_in = <<>>
            /\ rv_out = <<>>
            /\ rv_base = [buffer |-> r.buffer, index |-> r.index]
            /\ fed = Len(warm)
            /\ nops = 0
            /\ callback = IdleCallback
            /\ cli = IdleCli
            /\ process_callback = "_process_audio"
            /\ returned = NoReturn
            /\ twin = [engine |-> Engine, pre |-> Engine, audio |-> <<>>,
                       out |-> <<>>, post |-> Engine, calls |-> 0]

TwinTick == nops < MaxTwinOps /\ nops' = nops + 1 /\ UNCHANGED threads

FirstSetParameters == \E kw \in TwinRequests : TwinTick /\ SetParameters(kw)
FirstProcess == \E block \in TwinBlocks : TwinTick /\ ProcessCall(block)

SecondSetParameters ==
    \E kw \in TwinRequests :
        /\ TwinTick
        /\ twin' = [twin EXCEPT !.engine = StoreInto(twin.engine, kw)]
        /\ UNCHANGED <<sample_rate, process_callback, returned, params, delay,
                       current_preset, last, history, fed>>

SecondProcess ==
    \E block \in TwinBlocks :
        /\ TwinTick
        /\ LET r == Process(twin.engine, block)
               after == [twin.engine EXCEPT !.reverb_buffer = r.buffer,
                                            !.reverb_index = r.index]
           IN  twin' = [engine |-> after, pre |-> twin.engine, audio |-> block,
                        out |-> r.out, post |-> after, calls |-> twin.calls + 1]
        /\ UNCHANGED <<sample_rate, process_callback, returned, params, delay,
                       current_preset, last, history, fed>>

NextTwins == FirstSetParameters \/ FirstProcess \/ SecondSetParameters \/ SecondProcess

SpecTwins == InitTwins /\ [][NextTwins]_vars

MaxFiniteLen == 1
MaxFiniteOps == 3

FloatMax == 50000
Finite(v) == Abs(v) <= FloatMax

\* 0.6 of full scale and the largest finite sample
FiniteSamples == {600, FloatMax}
FiniteBlocks == UNION {[1..n -> FiniteSamples] : n \in 0..MaxFiniteLen}
\* gain=5.0, distortion=0.3, reverb_mix=0.3, gain=0.1
FiniteRequests ==
    {("gain" :> 500), ("distortion" :> 30), ("reverb_mix" :> 30), ("gain" :> 10)}

FiniteTick == nops < MaxFiniteOps /\ nops' = nops + 1 /\ UNCHANGED threads

FiniteSetParameters == \E kw \in FiniteRequests : FiniteTick /\ SetParameters(kw)
FiniteProcess == \E block \in FiniteBlocks : FiniteTick /\ ProcessCall(block)

NextFinite == FiniteSetParameters \/ FiniteProcess

SpecFinite == Init /\ [][NextFinite]_vars

(***************************************************************************)
(* C12.  Full-chain finiteness: for parameters within their ranges and a   *)
(* block of finite samples, process returns a block of the same length     *)
(* whose samples are all finite, whatever the delay line holds.            *)
(***************************************************************************)
C12_FiniteOutput ==
    (op = "process" /\ \A i \in DOMAIN audio_in : Finite(audio_in[i])) =>
        /\ Len(audio_out) = Len(audio_in)
        /\ \A i \in DOMAIN audio_out : Finite(audio_out[i])

(***************************************************************************)
(* SpecRates: the reverb stage on engines constructed with sample rates    *)
(* below and above 20 Hz.  int(0.05 * sample_rate) is 0 below 20: the      *)
(* delay line is np.zeros(0) and reverb_buffer[reverb_index] raises        *)
(* IndexError at the first sample, before anything is stored.              *)
(***************************************************************************)
MaxRateFed == 3
MaxRateWrites == 2

AnyRates == {1, 10, 20, 50}
RateBlocks == UNION {[1..n -> ImpulseSamples] : n \in 0..MaxRateFed}

InitRates == \E fs \in AnyRates : Construct(fs)

RateSetMix ==
    \E kw \in MixRequests :
        /\ nops < MaxRateWrites
        /\ nops' = nops + 1
        /\ SetParameters(kw)
        /\ UNCHANGED threads

\* apply_reverb reaches reverb_buffer[reverb_index] on an empty buffer
Raises(block) == reverb_mix # 0 /\ block # <<>> /\ reverb_buffer_size = 0

RateReverb ==
    \E block \in RateBlocks :
        /\ fed + Len(block) <= MaxRateFed
        /\ ~Raises(block)
        /\ ApplyReverbCall(block)
        /\ UNCHANGED <<nops, threads>>

RateReverbRaises ==
    \E block \in RateBlocks :
        /\ fed + Len(block) <= MaxRateFed
        /\ Raises(block)
        /\ op' = "IndexError"
        /\ audio_in' = block
        /\ audio_out' = <<>>
        /\ fed' = fed + Len(block)
        /\ UNCHANGED <<fixed, params, delay, current_preset, kwargs, history, nops,
                       threads>>

NextRates == RateSetMix \/ RateReverb \/ RateReverbRaises

SpecRates == InitRates /\ [][NextRates]_vars

(***************************************************************************)
(* C13.  Delay-line cursor invariant: for every positive integer sample    *)
(* rate the cursor satisfies 0 <= cursor < capacity in every state, from   *)
(* construction on, and reverb processing never indexes outside the        *)
(* buffer.                                                                 *)
(***************************************************************************)
C13_CursorInRange ==
    /\ 0 <= reverb_index
    /\ reverb_index < reverb_buffer_size
    /\ op # "IndexError"

(***************************************************************************)
(* SpecCallback: AudioEngine._audio_callback taken as one step, with the   *)
(* process callback the amplifier installs, with none, and with callbacks  *)
(* that return a block shorter or longer than the one they were given.     *)
(* The samples arrive and leave as float32, a rounding far below the       *)
(* thousandth of full scale the model computes in.                         *)
(***************************************************************************)
MaxCallbackLen == 1
MaxCallbackOps == 3

CallbackBlocks == UNION {[1..n -> Samples] : n \in 0..MaxCallbackLen}
\* gain=10.0 (stored as 5.0) and the six parameters of the setting test
CallbackRequests == {("gain" :> 1000), SettingRequest}
\* VirtualAmp._process_audio, no callback, audio[:len(audio) // 2] and
\* np.concatenate([audio, audio])
ProcessCallbacks == {"_process_audio", "None", "first_half", "twice"}

\* what self.process_callback(audio_data) returns and leaves in the engine;
\* with no callback installed processed_data is audio_data
CallProcessCallback(cb, audio_data) ==
    LET same == [buffer |-> reverb_buffer, index |-> reverb_index]
    IN  CASE cb = "_process_audio" -> Process(Engine, audio_data)
          [] cb = "None" -> [out |-> audio_data] @@ same
          [] cb = "first_half" ->
                 [out |-> SubSeq(audio_data, 1, Len(audio_data) \div 2)] @@ same
          [] cb = "twice" -> [out |-> audio_data \o audio_data] @@ same

\* a callback that emits whatever the process callback returned
AudioCallbackUnchecked(audio_data) ==
    LET r == CallProcessCallback(process_callback, audio_data)
        processed_data == r.out
        clipped == [i \in 1..Len(processed_data) |->
                       Clip(processed_data[i], -SScale, SScale)]
    IN  /\ returned' = [audio |-> audio_data, processed |-> r.out,
                        output |-> clipped, flag |-> "paContinue"]
        /\ reverb_buffer' = r.buffer
        /\ reverb_index' = r.index
        /\ rv_base' = [buffer |-> r.buffer, index |-> r.index]
        /\ fed' = fed + (IF process_callback = "_process_audio"
                         THEN Len(audio_data) ELSE 0)
        /\ op' = "_audio_callback"
        /\ audio_in' = audio_data
        /\ audio_out' = r.out
        /\ eq_in' = <<>>
        /\ eq_out' = <<>>
        /\ rv_in' = <<>>
        /\ rv_out' = <<>>
        /\ UNCHANGED <<sample_rate, process_callback, twin, params,
                       reverb_buffer_size, current_preset, kwargs>>
AudioCallback(audio_data) ==
    LET r == CallProcessCallback(process_callback, audio_data)
        processed_data == IF Len(r.out) # Len(audio_data) THEN audio_data ELSE r.out
        clipped == [i \in 1..Len(processed_data) |->
                       Clip(processed_data[i], -SScale, SScale)]
    IN  /\ returned' = [audio |-> audio_data, processed |-> r.out,
                        output |-> clipped, flag |-> "paContinue"]
        /\ reverb_buffer' = r.buffer
        /\ reverb_index' = r.index
        /\ rv_base' = [buffer |-> r.buffer, index |-> r.index]
        /\ fed' = fed + (IF process_callback = "_process_audio"
                         THEN Len(audio_data) ELSE 0)
        /\ op' = "_audio_callback"
        /\ audio_in' = audio_data
        /\ audio_out' = r.out
        /\ eq_in' = <<>>
        /\ eq_out' = <<>>
        /\ rv_in' = <<>>
        /\ rv_out' = <<>>
        /\ UNCHANGED <<sample_rate, process_callback, twin, params,
                       reverb_buffer_size, current_preset, kwargs>>

\* AudioEngine.set_process_callback, or the field left as __init__ set it
SetProcessCallback(cb) ==
    /\ process_callback' = cb
    /\ op' = "set_process_callback"
    /\ UNCHANGED <<sample_rate, returned, twin, params, delay, current_preset,
                   kwargs, audio_in, audio_out, history, fed>>

CallbackTick == nops < MaxCallbackOps /\ nops' = nops + 1 /\ UNCHANGED threads

AudioCallbackStep == \E block \in CallbackBlocks : CallbackTick /\ AudioCallback(block)
SetProcessCallbackStep ==
    \E cb \in ProcessCallbacks : CallbackTick /\ SetProcessCallback(cb)
CallbackSetParameters == \E kw \in CallbackRequests : CallbackTick /\ SetParameters(kw)

NextCallback == AudioCallbackStep \/ SetProcessCallbackStep \/ CallbackSetParameters

SpecCallback == Init /\ [][NextCallback]_vars

MaxPresetOps == 3

PresetBlocks == {<<>>, <<600>>}

\* VirtualAmp.get_current_settings
GetCurrentSettings ==
    [preset |-> current_preset, gain |-> gain, distortion |-> distortion,
     bass |-> bass, mid |-> mid, treble |-> treble, reverb_mix |-> reverb_mix]

PresetTick == nops < MaxPresetOps /\ nops' = nops + 1

LoadPresetNamed ==
    \E name \in PresetRequests :
        /\ PresetTick
        /\ LoadPreset(name)
        /\ cli' = [todo |-> <<>>, preset |-> name]
        /\ UNCHANGED callback

PresetProcess ==
    \E block \in PresetBlocks : PresetTick /\ ProcessCall(block) /\ UNCHANGED threads

NextPresets == LoadPresetNamed \/ PresetProcess

SpecPresets == Init /\ [][NextPresets]_vars

(***************************************************************************)
(* C16.  load_preset(name) with a defined name leaves all six parameters   *)
(* equal to that preset's values, each of them inside its range, and       *)
(* current_preset equal to name; with a name that is not defined it        *)
(* returns normally and leaves the six parameters and current_preset as    *)
(* they were.                                                              *)
(***************************************************************************)
C16_LoadPreset ==
    [][(op' = "load_preset" /\ nops' # nops) =>
          LET name == cli'.preset
          IN  IF name \in PresetNames
              THEN /\ \A n \in ParamNames :
                         /\ Param'[n] = presets[name][n]
                         /\ Lo(n) <= presets[name][n]
                         /\ presets[name][n] <= Hi(n)
                   /\ current_preset' = name
              ELSE /\ params' = params
                   /\ current_preset' = current_preset]_vars

\* 'metal' was loaded, a block processed, and then a name that is no preset
\* was asked for
C16_Witness ==
    /\ op = "load_preset"
    /\ cli.preset = "jazz"
    /\ current_preset = "metal"
    /\ gain = 400
    /\ reverb_mix = 5
    /\ reverb_index > 0

(***************************************************************************)
(* C17.  Preset/parameter consistency: in every state reached from         *)
(* construction by load_preset calls, the six values get_current_settings  *)
(* reports are the values of the preset its 'preset' field names, the      *)
(* freshly constructed amplifier with 'preset' == 'clean' included.        *)
(***************************************************************************)
C17_PresetConsistent ==
    \A n \in ParamNames :
        GetCurrentSettings[n] = presets[GetCurrentSettings.preset][n]

====
